---- MODULE Spec2Model ----
(***************************************************************************)
(* Model of ncbi-blast-db.py: the ThreadQueue (a list guarded by a         *)
(* threading.Condition), the DownloadThread workers and                    *)
(* NCBI_BlastMirror.sync (manifest diff, dispatch, drain, install,         *)
(* persist).                                                               *)
(*                                                                         *)
(* Every statement sequence that runs with the queue's lock held is one    *)
(* atomic step: nothing else can observe the queue in between.  The lock   *)
(* is therefore visible in a state only when a thread left deque() without *)
(* releasing it.                                                           *)
(***************************************************************************)
EXTENDS Integers, Sequences, FiniteSets, TLC

\* ---- bounds of the model ----
MaxThreads == 2
NumArtifacts == 2
MaxRuns == 2
MaxPatLen == 2
MaxPatterns == 2

\* ---- values ----
Main == 0
Artifacts == 1..NumArtifacts
Hashes == {"h1", "h2"}
Contents == {"c1", "c2"}
NoFile == "nofile"
Empty == "empty"
NoOwner == -1
None == <<>>
ArchiveDir == "archives"
DownloadQue == "download_que"
FinishedQue == "finished_que"
Queues == {DownloadQue, FinishedQue}
AllThreads == 0..MaxThreads

\* md5 of a file's content (lines 77-84, 90-93); the empty file has its own digest
Digest(c) == CASE c = "c1" -> "h1" [] c = "c2" -> "h2" [] OTHER -> "h0"

\* os.path.join(self.archive_dir, fn) (lines 180, 202)
Target(fn) == <<ArchiveDir, fn>>

\* os.path.split(target)[-1] (lines 87, 207)
Basename(target) == target[Len(target)]

EmptyMap == [a \in {} |-> "h1"]

\* all hash maps over a set of names
HashMaps == UNION {[S -> Hashes] : S \in SUBSET Artifacts}

\* the remote directories considered: any set of artifacts, each with the
\* descriptor hash "h1" (the local manifest and the contents range over both
\* hashes, so a remote hash can be absent, equal or different locally)
Catalogs == UNION {[S -> {"h1"}] : S \in SUBSET Artifacts}

RECURSIVE SortedKeys(_)
\* fnlist = hashmap.keys(); fnlist.sort() (lines 149-150)
SortedKeys(S) ==
  IF S = {} THEN <<>>
  ELSE LET m == CHOOSE x \in S : \A y \in S : x <= y
       IN <<m>> \o SortedKeys(S \ {m})

\* the lines written to the hash file, one <<name, hash>> per line (lines 148-156)
write_local_hashmap(hashmap) ==
  LET fnlist == SortedKeys(DOMAIN hashmap)
  IN [i \in 1..Len(fnlist) |-> <<fnlist[i], hashmap[fnlist[i]]>>]

\* the map read back from the lines of the hash file; a later line of the same
\* name overwrites an earlier one, a missing or empty file gives {} (lines 138-146)
load_local_hashmap(file) ==
  LET names == {file[i][1] : i \in DOMAIN file}
      last(fn) == CHOOSE i \in DOMAIN file :
                    /\ file[i][1] = fn
                    /\ \A j \in DOMAIN file : file[j][1] = fn => j <= i
  IN [fn \in names |-> file[last(fn)][2]]

\* ---- file names and glob patterns ----

\* the characters of a database name, and of a pattern ("*" and "?" are the
\* wildcards of fnmatch; bracket expressions are left out)
NameChars == {"a", "b"}
PatChars == NameChars \cup {"*", "?"}

\* the patterns of at most MaxPatLen characters
Patterns == UNION {[1..n -> PatChars] : n \in 1..MaxPatLen}

\* the pattern lists considered for include and exclude (their order does not
\* matter to any(), line 218)
PatternLists ==
  UNION {{{l[i] : i \in 1..n} : l \in [1..n -> Patterns]} : n \in 0..MaxPatterns}

\* the database name of artifact a: "a", "ab", "aba", ...
DbName(a) == [i \in 1..a |-> IF i % 2 = 1 THEN "a" ELSE "b"]

\* the name of the archive of artifact a in the remote directory, and of its
\* descriptor; "." is the dot, "tgz" and "md5" stand for the extensions
ArchiveFile(a) == DbName(a) \o <<".", "tgz">>
DescriptorFile(a) == ArchiveFile(a) \o <<".", "md5">>

\* fn.endswith(".md5") (line 160)
EndsWithMd5(fn) ==
  Len(fn) >= 2 /\ fn[Len(fn) - 1] = "." /\ fn[Len(fn)] = "md5"

\* fn.split('.')[0] (lines 161, 168): what precedes the first dot
SplitDot0(fn) ==
  LET dots == {i \in DOMAIN fn : fn[i] = "."}
  IN IF dots = {} THEN fn
     ELSE SubSeq(fn, 1, (CHOOSE i \in dots : \A j \in dots : i <= j) - 1)

RECURSIVE fnmatch(_, _)
\* fnmatch.fnmatch(name, pat) (line 218): "*" matches any run of characters,
\* "?" one character, any other character itself; the whole name must match
fnmatch(name, pat) ==
  IF pat = <<>> THEN name = <<>>
  ELSE IF Head(pat) = "*"
       THEN \/ fnmatch(name, Tail(pat))
            \/ name # <<>> /\ fnmatch(Tail(name), pat)
       ELSE /\ name # <<>>
            /\ Head(pat) = "?" \/ Head(pat) = Head(name)
            /\ fnmatch(Tail(name), Tail(pat))

\* match(dbname, pattern_list) (lines 217-218)
match(dbname, pattern_list) == \E pattern \in pattern_list : fnmatch(dbname, pattern)

VARIABLES
  threads,        \* self.threads
  include,        \* self.include
  exclude,        \* self.exclude
  run,            \* number of the sync invocation (1, 2, ...)
  catalog,        \* the remote repository: artifact name -> hash of its descriptor
  hashfile,       \* the lines of the local hash file on disk
  archive,        \* the file at archive_dir/fn: NoFile or its content
  tempfile,       \* the file at archive_dir/fn_download
  blastdb,        \* what was unpacked into blastdb_dir for fn
  local_hashmap,  \* self.local_hashmap
  remote_hashmap, \* self.remote_hashmap
  unvisited,      \* names the manifest() generator has not reached yet
  que,            \* ThreadQueue.que of each queue; que[q][1] is list index 0
  joined,         \* ThreadQueue._join of each queue
  owner,          \* the thread that holds que_cv of each queue, or NoOwner
  pc,             \* where each thread is
  work,           \* the work item a thread holds (loop variable `work` / item)
  exc,            \* threads in which an IndexError was raised by que.pop()
  enqueued,       \* history: the items inserted in each queue, in order
  dequeued,       \* history: <<thread, item>> for each return of deque(), in order
  yielded,        \* history: the names manifest() yielded, in order
  fetched,        \* history: names retrieved over the network in this run
  verified,       \* history: names for which download() returned True in this run
  mismatched,     \* history: names for which download() returned False in this run
  unpackfailed,   \* history: names for which install() returned False in this run
  loaded,         \* history: the manifest as load_local_hashmap() read it in this run
  persisted,      \* history: names whose write_local_hashmap() completed in this run
  removed,        \* history: names whose archive the loop of sync() unlinked in this run
  cleaned,        \* history: names whose archive manifest() unlinked in this run
  requested,      \* history: the descriptors download_hash() fetched in this run
  renamed,        \* history: <<name, content>> of each rename to target in this run
  failed          \* history: a download() or install() returned False, in any run

disk == <<catalog, hashfile, archive, tempfile, blastdb>>
maps == <<local_hashmap, remote_hashmap, unvisited>>
queues == <<que, joined, owner>>
hist == <<enqueued, dequeued, yielded, fetched, verified, mismatched,
          unpackfailed, loaded, persisted, removed, cleaned, requested, renamed, failed>>
config == <<threads, include, exclude>>
vars == <<config, run, disk, maps, queues, pc, work, exc, hist>>

Workers == 1..threads

\* the queue a thread takes from and the queue it puts into (lines 193, 204, 206)
InQ(t) == IF t = Main THEN FinishedQue ELSE DownloadQue
OutQ(t) == IF t = Main THEN DownloadQue ELSE FinishedQue

\* threads blocked in que_cv.wait() of queue q (line 28)
Waiters(q) == {t \in AllThreads : pc[t] = "wait" /\ InQ(t) = q}

\* ThreadQueue.__init__ (lines 18-21) and the process state before sync()
FreshProcess ==
  /\ pc = [t \in AllThreads |-> IF t = Main THEN "connect" ELSE "unstarted"]
  /\ work = [t \in AllThreads |-> None]
  /\ exc = {}
  /\ que = [q \in Queues |-> <<>>]
  /\ joined = [q \in Queues |-> FALSE]
  /\ owner = [q \in Queues |-> NoOwner]
  /\ local_hashmap = EmptyMap
  /\ remote_hashmap = EmptyMap
  /\ unvisited = {}
  /\ enqueued = [q \in Queues |-> <<>>]
  /\ dequeued = [q \in Queues |-> <<>>]
  /\ yielded = <<>>
  /\ fetched = {}
  /\ verified = {}
  /\ mismatched = {}
  /\ unpackfailed = {}
  /\ loaded = EmptyMap
  /\ persisted = {}
  /\ removed = {}
  /\ cleaned = {}
  /\ requested = {}
  /\ renamed = {}

Init ==
  /\ threads \in 1..MaxThreads
  /\ include = {<<"*">>}
  /\ exclude = {}
  /\ run = 1
  /\ catalog \in Catalogs
  /\ hashfile \in {write_local_hashmap(m) : m \in HashMaps}
  /\ archive \in [Artifacts -> {NoFile} \cup Contents]
  /\ tempfile = [a \in Artifacts |-> NoFile]
  /\ blastdb = [a \in Artifacts |-> NoFile]
  /\ failed = FALSE
  /\ FreshProcess


\* ---------------------------------------------------------------- ThreadQueue

\* que.pop(): the last element of the list (line 29)
Popped(q) == que[q][Len(que[q])]

\* mutant of AfterPop: the item is read but stays in the list
AfterPop_keep(q) == que[q]

\* the list after que.pop()
AfterPop(q) == SubSeq(que[q], 1, Len(que[q]) - 1)

\* que.insert(0, work) (line 35)
Inserted(q, item) == <<item>> \o que[q]

\* where a thread goes on with the item deque() returned: the worker's loop
\* `for work in self.inq` (lines 52-56, 68-72) and the loop of sync() over
\* finished_que (lines 52-56, 206): a None ends the iteration
Returned(t, item) ==
  /\ dequeued' = [dequeued EXCEPT ![InQ(t)] = Append(@, <<t, item>>)]
  /\ work' = [work EXCEPT ![t] = item]
  /\ pc' = [pc EXCEPT ![t] =
              IF item = None
              THEN (IF t = Main THEN "done" ELSE "enque_sentinel")
              ELSE (IF t = Main THEN "install" ELSE "download")]

\* mutant of deque_pop: the release of line 30 is missing, deque() returns the
\* item with que_cv still acquired
deque_pop_keeplock(t) ==
  LET q == InQ(t) IN
  /\ pc[t] = "deque"
  /\ owner[q] = NoOwner
  /\ Len(que[q]) # 0
  /\ que' = [que EXCEPT ![q] = AfterPop(q)]
  /\ owner' = [owner EXCEPT ![q] = t]
  /\ Returned(t, Popped(q))
  /\ UNCHANGED <<config, run, disk, maps, joined, exc, enqueued, yielded,
                 fetched, verified, mismatched, unpackfailed, loaded, persisted,
                 removed, cleaned, requested, renamed, failed>>

\* deque(), lines 24-27 and 29-31, on a queue that is not empty: pop and release
deque_pop(t) ==
  LET q == InQ(t) IN
  /\ pc[t] = "deque"
  /\ owner[q] = NoOwner
  /\ Len(que[q]) # 0
  /\ que' = [que EXCEPT ![q] = AfterPop(q)]
  /\ Returned(t, Popped(q))
  /\ UNCHANGED <<config, run, disk, maps, joined, owner, exc, enqueued, yielded,
                 fetched, verified, mismatched, unpackfailed, loaded, persisted,
                 removed, cleaned, requested, renamed, failed>>

\* deque(), lines 24-27, on an empty closed queue: `return None` with que_cv
\* still acquired
deque_closed(t) ==
  LET q == InQ(t) IN
  /\ pc[t] = "deque"
  /\ owner[q] = NoOwner
  /\ Len(que[q]) = 0
  /\ joined[q]
  /\ owner' = [owner EXCEPT ![q] = t]
  /\ Returned(t, None)
  /\ UNCHANGED <<config, run, disk, maps, que, joined, exc, enqueued, yielded,
                 fetched, verified, mismatched, unpackfailed, loaded, persisted,
                 removed, cleaned, requested, renamed, failed>>

\* deque(), lines 24-28, on an empty open queue: que_cv.wait() releases the lock
deque_wait(t) ==
  LET q == InQ(t) IN
  /\ pc[t] = "deque"
  /\ owner[q] = NoOwner
  /\ Len(que[q]) = 0
  /\ ~joined[q]
  /\ pc' = [pc EXCEPT ![t] = "wait"]
  /\ UNCHANGED <<config, run, disk, maps, queues, work, exc, hist>>

\* deque(), lines 28-31: wait() returns once the thread was notified and has the
\* lock again; the queue is not tested again.  pop() of an empty list raises
\* IndexError, which leaves deque() with the lock held; in a worker the
\* exception ends the loop of run() and reaches its `finally`
deque_wakeup(t) ==
  LET q == InQ(t) IN
  /\ pc[t] = "notified"
  /\ owner[q] = NoOwner
  /\ IF Len(que[q]) # 0
     THEN /\ que' = [que EXCEPT ![q] = AfterPop(q)]
          /\ Returned(t, Popped(q))
          /\ UNCHANGED <<owner, exc>>
     ELSE /\ owner' = [owner EXCEPT ![q] = t]
          /\ exc' = exc \cup {t}
          /\ pc' = [pc EXCEPT ![t] = IF t = Main THEN "raised" ELSE "enque_sentinel"]
          /\ UNCHANGED <<que, work, dequeued>>
  /\ UNCHANGED <<config, run, disk, maps, joined, enqueued, yielded,
                 fetched, verified, mismatched, unpackfailed, loaded, persisted,
                 removed, cleaned, requested, renamed, failed>>

\* que_cv.notify(): one of the waiting threads, if any, is woken (line 36)
Notify(q, w) ==
  IF Waiters(q) = {} THEN w = NoOwner ELSE w \in Waiters(q)

\* the item a thread is about to put: its work item (lines 70, 204) or the
\* None of the worker's `finally` (line 72)
Putting(t) == IF pc[t] = "enque_sentinel" THEN None ELSE work[t]

\* where a thread goes on after enque(): the coordinator asks manifest() for the
\* next name, a worker takes the next item, a worker that put its None ends
AfterEnque(t) ==
  IF t = Main THEN "manifest"
  ELSE IF pc[t] = "enque_sentinel" THEN "terminated" ELSE "deque"

\* enque(work), lines 33-37
enque(t) ==
  LET q == OutQ(t) IN
  /\ pc[t] \in {"enque", "enque_sentinel"}
  /\ owner[q] = NoOwner
  /\ que' = [que EXCEPT ![q] = Inserted(q, Putting(t))]
  /\ enqueued' = [enqueued EXCEPT ![q] = Append(@, Putting(t))]
  /\ \E w \in Waiters(q) \cup {NoOwner} :
       /\ Notify(q, w)
       /\ pc' = [x \in AllThreads |->
                   IF x = t THEN AfterEnque(t)
                   ELSE IF x = w THEN "notified" ELSE pc[x]]
  /\ UNCHANGED <<config, run, disk, maps, joined, owner, work, exc, dequeued,
                 yielded, fetched, verified, mismatched, unpackfailed, loaded,
                 persisted, removed, cleaned, requested, renamed, failed>>

\* download_que.join(), lines 39-43 and 205: close the queue, wake every waiter
join ==
  LET q == DownloadQue IN
  /\ pc[Main] = "join"
  /\ owner[q] = NoOwner
  /\ joined' = [joined EXCEPT ![q] = TRUE]
  /\ pc' = [x \in AllThreads |->
              IF x = Main THEN "deque"
              ELSE IF x \in Waiters(q) THEN "notified" ELSE pc[x]]
  /\ UNCHANGED <<config, run, disk, maps, que, owner, work, exc, hist>>


\* -------------------------------------------------------------- DownloadThread

\* the name and the expected hash of the work item a thread holds
WorkName(t) == Basename(work[t][1])
WorkHash(t) == work[t][2]

\* download(), lines 76-85: is the file at target already the expected one
AlreadyThere(fn, filename_hash) ==
  /\ archive[fn] # NoFile
  /\ Digest(archive[fn]) = filename_hash

\* mutant of Mismatch: the comparison of line 97 inverted
Mismatch_inverted(content, filename_hash) ==
  /\ filename_hash # ""
  /\ Digest(content) = filename_hash

\* download(), line 97: the check that rejects what was retrieved
Mismatch(content, filename_hash) ==
  /\ filename_hash # ""
  /\ Digest(content) # filename_hash

\* download(), lines 76-85 then run(), lines 69-70: the file at target has the
\* expected hash, download() returns True without retrieving anything
download_present(t) ==
  /\ t \in Workers
  /\ pc[t] = "download"
  /\ AlreadyThere(WorkName(t), WorkHash(t))
  /\ pc' = [pc EXCEPT ![t] = "enque"]
  /\ verified' = verified \cup {WorkName(t)}
  /\ UNCHANGED <<config, run, disk, maps, queues, work, exc, enqueued, dequeued,
                 yielded, fetched, mismatched, unpackfailed, loaded, persisted,
                 removed, cleaned, requested, renamed, failed>>

\* download(), lines 76-91: no file with the expected hash at target, the
\* temporary file is opened for writing (created or truncated)
download_open(t) ==
  /\ t \in Workers
  /\ pc[t] = "download"
  /\ ~AlreadyThere(WorkName(t), WorkHash(t))
  /\ tempfile' = [tempfile EXCEPT ![WorkName(t)] = Empty]
  /\ pc' = [pc EXCEPT ![t] = "retrbinary"]
  /\ UNCHANGED <<config, run, catalog, hashfile, archive, blastdb, maps, queues,
                 work, exc, hist>>

\* mutant of download_retr: the os.unlink(temp_filename) of line 100 is missing,
\* the temporary file stays after a mismatch
download_retr_keep_temp(t, content) ==
  LET fn == WorkName(t) IN
  /\ t \in Workers
  /\ pc[t] = "retrbinary"
  /\ fetched' = fetched \cup {fn}
  /\ IF Mismatch(content, WorkHash(t))
     THEN /\ tempfile' = [tempfile EXCEPT ![fn] = content]
          /\ pc' = [pc EXCEPT ![t] = "deque"]
          /\ mismatched' = mismatched \cup {fn}
          /\ failed' = TRUE
          /\ UNCHANGED <<archive, verified, renamed>>
     ELSE /\ tempfile' = [tempfile EXCEPT ![fn] = NoFile]
          /\ archive' = [archive EXCEPT ![fn] = content]
          /\ renamed' = renamed \cup {<<fn, content>>}
          /\ pc' = [pc EXCEPT ![t] = "enque"]
          /\ verified' = verified \cup {fn}
          /\ UNCHANGED <<mismatched, failed>>
  /\ UNCHANGED <<config, run, catalog, hashfile, blastdb, maps, queues, work, exc,
                 enqueued, dequeued, yielded, unpackfailed, loaded, persisted,
                 removed, cleaned, requested>>

\* download(), lines 92-103: the content arrives and is hashed as it is written;
\* on a mismatch the temporary file is unlinked and download() returns False
\* (run() takes the next item), otherwise it is renamed to target
download_retr(t, content) ==
  LET fn == WorkName(t) IN
  /\ t \in Workers
  /\ pc[t] = "retrbinary"
  /\ fetched' = fetched \cup {fn}
  /\ tempfile' = [tempfile EXCEPT ![fn] = NoFile]
  /\ IF Mismatch(content, WorkHash(t))
     THEN /\ pc' = [pc EXCEPT ![t] = "deque"]
          /\ mismatched' = mismatched \cup {fn}
          /\ failed' = TRUE
          /\ UNCHANGED <<archive, verified, renamed>>
     ELSE /\ archive' = [archive EXCEPT ![fn] = content]
          /\ renamed' = renamed \cup {<<fn, content>>}
          /\ pc' = [pc EXCEPT ![t] = "enque"]
          /\ verified' = verified \cup {fn}
          /\ UNCHANGED <<mismatched, failed>>
  /\ UNCHANGED <<config, run, catalog, hashfile, blastdb, maps, queues, work, exc,
                 enqueued, dequeued, yielded, unpackfailed, loaded, persisted,
                 removed, cleaned, requested>>

\* ------------------------------------------------------------ NCBI_BlastMirror

\* retrlines("NLST") (line 159): the archives and descriptors of the remote
\* directory
files == {ArchiveFile(a) : a \in DOMAIN catalog} \cup
         {DescriptorFile(a) : a \in DOMAIN catalog}

\* line 160
hashes == {fn \in files : EndsWithMd5(fn)}

\* mutant of filter_rule: the exclude list is not consulted
filter_rule_include_only(dbname) == match(dbname, include)

\* filter_rule(dbname) (lines 219-220)
filter_rule(dbname) == match(dbname, include) /\ ~match(dbname, exclude)

\* filter_dblist(dblist) (lines 216-221)
filter_dblist(dblist) == {dbname \in dblist : filter_rule(dbname)}

\* lines 161-162
dblist == filter_dblist({SplitDot0(fn) : fn \in hashes})

\* the descriptors load_remote_hashmap() passes to download_hash() (lines 167-171)
Fetch == {fn \in hashes : SplitDot0(fn) \in dblist}

\* load_remote_hashmap(), lines 158-173: download_hash() (lines 230-239) of the
\* descriptor of artifact a gives (a, catalog[a])
load_remote_hashmap ==
  [a \in {b \in DOMAIN catalog : DescriptorFile(b) \in Fetch} |-> catalog[a]]

\* mutant of UpToDate: the name is looked up, the hashes are not compared
UpToDate_name(fn) == fn \in DOMAIN local_hashmap

\* manifest(), line 179: the artifact is already installed with this hash
UpToDate(fn) ==
  /\ fn \in DOMAIN local_hashmap
  /\ local_hashmap[fn] = remote_hashmap[fn]

\* sync(), line 199
connect ==
  /\ pc[Main] = "connect"
  /\ pc' = [pc EXCEPT ![Main] = "build_download_workers"]
  /\ UNCHANGED <<config, run, disk, maps, queues, work, exc, hist>>

\* build_download_workers(), lines 186-196: self.threads workers are started
build_download_workers ==
  /\ pc[Main] = "build_download_workers"
  /\ pc' = [t \in AllThreads |->
              IF t = Main THEN "manifest_load"
              ELSE IF t \in Workers THEN "deque" ELSE pc[t]]
  /\ UNCHANGED <<config, run, disk, maps, queues, work, exc, hist>>

\* manifest(), lines 176-177, run when sync() asks the generator for its first name
manifest_load ==
  /\ pc[Main] = "manifest_load"
  /\ local_hashmap' = load_local_hashmap(hashfile)
  /\ remote_hashmap' = load_remote_hashmap
  /\ unvisited' = DOMAIN load_remote_hashmap
  /\ loaded' = load_local_hashmap(hashfile)
  /\ requested' = Fetch
  /\ pc' = [pc EXCEPT ![Main] = "manifest"]
  /\ UNCHANGED <<config, run, disk, queues, work, exc, enqueued, dequeued, yielded,
                 fetched, verified, mismatched, unpackfailed, persisted, removed,
                 cleaned, renamed, failed>>

\* mutant of manifest_skip: lines 181-182 are missing, a file left at the
\* target of an up-to-date name stays
manifest_skip_keep(fn) ==
  /\ pc[Main] = "manifest"
  /\ fn \in unvisited
  /\ UpToDate(fn)
  /\ unvisited' = unvisited \ {fn}
  /\ UNCHANGED <<config, run, disk, local_hashmap, remote_hashmap, queues, pc, work,
                 exc, hist>>

\* manifest(), lines 178-183: a name whose local hash is the remote one is not
\* yielded, and a file left at its target is unlinked
manifest_skip(fn) ==
  /\ pc[Main] = "manifest"
  /\ fn \in unvisited
  /\ UpToDate(fn)
  /\ unvisited' = unvisited \ {fn}
  /\ archive' = [archive EXCEPT ![fn] = NoFile]
  /\ cleaned' = IF archive[fn] # NoFile THEN cleaned \cup {fn} ELSE cleaned
  /\ UNCHANGED <<config, run, catalog, hashfile, tempfile, blastdb, local_hashmap,
                 remote_hashmap, queues, pc, work, exc, enqueued, dequeued, yielded,
                 fetched, verified, mismatched, unpackfailed, loaded, persisted,
                 removed, requested, renamed, failed>>

\* manifest(), line 184, then sync(), lines 202-204: the name is yielded and its
\* work item built
manifest_yield(fn) ==
  /\ pc[Main] = "manifest"
  /\ fn \in unvisited
  /\ ~UpToDate(fn)
  /\ unvisited' = unvisited \ {fn}
  /\ yielded' = Append(yielded, fn)
  /\ work' = [work EXCEPT ![Main] = <<Target(fn), remote_hashmap[fn]>>]
  /\ pc' = [pc EXCEPT ![Main] = "enque"]
  /\ UNCHANGED <<config, run, disk, local_hashmap, remote_hashmap, queues, exc,
                 enqueued, dequeued, fetched, verified, mismatched, unpackfailed,
                 loaded, persisted, removed, cleaned, requested, renamed, failed>>

\* mutant of manifest_end: the download_que.join() of line 205 is missing, the
\* loop over finished_que starts on an open work queue
manifest_end_nojoin ==
  /\ pc[Main] = "manifest"
  /\ unvisited = {}
  /\ pc' = [pc EXCEPT ![Main] = "deque"]
  /\ UNCHANGED <<config, run, disk, maps, queues, work, exc, hist>>

\* manifest() is exhausted, the loop of lines 201-204 ends
manifest_end ==
  /\ pc[Main] = "manifest"
  /\ unvisited = {}
  /\ pc' = [pc EXCEPT ![Main] = "join"]
  /\ UNCHANGED <<config, run, disk, maps, queues, work, exc, hist>>

\* mutant of install_fail: the `continue` of line 211 is missing, the loop goes
\* on to lines 212-214 after a failed install()
install_fail_fallthrough ==
  LET filename == WorkName(Main) IN
  /\ pc[Main] = "install"
  /\ unpackfailed' = unpackfailed \cup {filename}
  /\ failed' = TRUE
  /\ local_hashmap' =
       [fn \in DOMAIN local_hashmap \cup {filename} |->
          IF fn = filename THEN remote_hashmap[filename] ELSE local_hashmap[fn]]
  /\ pc' = [pc EXCEPT ![Main] = "write_open"]
  /\ UNCHANGED <<config, run, disk, remote_hashmap, unvisited, queues, work, exc,
                 enqueued, dequeued, yielded, fetched, verified, mismatched, loaded,
                 persisted, removed, cleaned, requested, renamed>>

\* sync(), lines 207-211: install() (lines 241-249) failed, the item is skipped
install_fail ==
  /\ pc[Main] = "install"
  /\ unpackfailed' = unpackfailed \cup {WorkName(Main)}
  /\ failed' = TRUE
  /\ pc' = [pc EXCEPT ![Main] = "deque"]
  /\ UNCHANGED <<config, run, disk, maps, queues, work, exc, enqueued, dequeued,
                 yielded, fetched, verified, mismatched, loaded, persisted, removed,
                 cleaned, requested,
                 renamed>>

\* sync(), lines 207-212: install() unpacked the archive, the entry of the
\* in-memory manifest is set to the remote hash
install_ok ==
  LET filename == WorkName(Main) IN
  /\ pc[Main] = "install"
  /\ archive[filename] # NoFile
  /\ blastdb' = [blastdb EXCEPT ![filename] = archive[filename]]
  /\ local_hashmap' =
       [fn \in DOMAIN local_hashmap \cup {filename} |->
          IF fn = filename THEN remote_hashmap[filename] ELSE local_hashmap[fn]]
  /\ pc' = [pc EXCEPT ![Main] = "write_open"]
  /\ UNCHANGED <<config, run, catalog, hashfile, archive, tempfile, remote_hashmap,
                 unvisited, queues, work, exc, hist>>

\* write_local_hashmap(), line 155: open(self.hashfile, 'w') truncates the file
write_open ==
  /\ pc[Main] = "write_open"
  /\ hashfile' = <<>>
  /\ pc' = [pc EXCEPT ![Main] = "write_close"]
  /\ UNCHANGED <<config, run, catalog, archive, tempfile, blastdb, maps, queues,
                 work, exc, hist>>

\* write_local_hashmap(), lines 155-156: the content is written and the file closed
write_close ==
  /\ pc[Main] = "write_close"
  /\ hashfile' = write_local_hashmap(local_hashmap)
  /\ persisted' = persisted \cup {WorkName(Main)}
  /\ pc' = [pc EXCEPT ![Main] = "unlink"]
  /\ UNCHANGED <<config, run, catalog, archive, tempfile, blastdb, maps, queues,
                 work, exc, enqueued, dequeued, yielded, fetched, verified,
                 mismatched, unpackfailed, loaded, removed, cleaned, requested,
                 renamed, failed>>

\* sync(), line 214: the staged archive is removed, the loop takes the next item
unlink ==
  /\ pc[Main] = "unlink"
  /\ archive' = [archive EXCEPT ![WorkName(Main)] = NoFile]
  /\ removed' = removed \cup {WorkName(Main)}
  /\ pc' = [pc EXCEPT ![Main] = "deque"]
  /\ UNCHANGED <<config, run, catalog, hashfile, tempfile, blastdb, maps, queues,
                 work, exc, enqueued, dequeued, yielded, fetched, verified,
                 mismatched, unpackfailed, loaded, persisted, cleaned, requested,
                 renamed, failed>>

\* sync() returned (line 297): the process exits, which ends its daemon threads
\* wherever they are (line 64), and the command is run again.  The files stay.
rerun ==
  /\ pc[Main] = "done"
  /\ run < MaxRuns
  /\ run' = run + 1
  /\ pc' = [t \in AllThreads |-> IF t = Main THEN "connect" ELSE "unstarted"]
  /\ work' = [t \in AllThreads |-> None]
  /\ exc' = {}
  /\ que' = [q \in Queues |-> <<>>]
  /\ joined' = [q \in Queues |-> FALSE]
  /\ owner' = [q \in Queues |-> NoOwner]
  /\ local_hashmap' = EmptyMap
  /\ remote_hashmap' = EmptyMap
  /\ unvisited' = {}
  /\ enqueued' = [q \in Queues |-> <<>>]
  /\ dequeued' = [q \in Queues |-> <<>>]
  /\ yielded' = <<>>
  /\ fetched' = {}
  /\ verified' = {}
  /\ mismatched' = {}
  /\ unpackfailed' = {}
  /\ loaded' = EmptyMap
  /\ persisted' = {}
  /\ removed' = {}
  /\ cleaned' = {}
  /\ requested' = {}
  /\ renamed' = {}
  /\ UNCHANGED <<config, disk, failed>>

\* the steps of one thread
Step(t) ==
  \/ deque_pop(t) \/ deque_closed(t) \/ deque_wait(t) \/ deque_wakeup(t)
  \/ enque(t)
  \/ download_present(t) \/ download_open(t)
  \/ \E content \in Contents : download_retr(t, content)

\* the steps of the coordinator that are not queue operations
MainStep ==
  \/ connect \/ build_download_workers \/ manifest_load
  \/ \E fn \in Artifacts : manifest_skip(fn) \/ manifest_yield(fn)
  \/ manifest_end \/ join
  \/ install_fail \/ install_ok \/ write_open \/ write_close \/ unlink

Next ==
  \/ \E t \in AllThreads : Step(t)
  \/ MainStep
  \/ rerun

Spec == Init /\ [][Next]_vars

\* every thread that can run gets to run
Fairness == \A t \in AllThreads : WF_vars(Step(t) \/ (t = Main /\ MainStep))

FairSpec == Spec /\ Fairness

\* the configurations considered for the filter: any two pattern lists, one
\* worker, nothing on the local disk
FilterInit ==
  /\ threads = 1
  /\ include \in PatternLists
  /\ exclude \in PatternLists
  /\ run = 1
  /\ catalog = [a \in Artifacts |-> "h1"]
  /\ hashfile = <<>>
  /\ archive = [a \in Artifacts |-> NoFile]
  /\ tempfile = [a \in Artifacts |-> NoFile]
  /\ blastdb = [a \in Artifacts |-> NoFile]
  /\ failed = FALSE
  /\ FreshProcess

\* sync() up to the first next() of manifest() (lines 199-201, 176-177)
FilterNext == connect \/ build_download_workers \/ manifest_load

FilterSpec == FilterInit /\ [][FilterNext]_vars

TypeOK ==
  /\ threads \in 1..MaxThreads
  /\ run \in 1..MaxRuns
  /\ \A q \in Queues : owner[q] \in AllThreads \cup {NoOwner}


\* ------------------------------------------------------------------ properties

\* thread t is at a point where it must acquire que_cv of queue q
NeedsLock(t, q) ==
  \/ pc[t] \in {"deque", "notified"} /\ InQ(t) = q
  \/ pc[t] \in {"enque", "enque_sentinel"} /\ OutQ(t) = q
  \/ t = Main /\ pc[t] = "join" /\ q = DownloadQue

\* thread t needs a lock that another thread kept when it left deque(); no step
\* releases such a lock, so t is blocked for ever
Blocked(t) == \E q \in Queues : NeedsLock(t, q) /\ owner[q] \notin {NoOwner, t}

\* the coordinator waits on the empty finished queue and no worker can put
\* anything into it any more
Starved ==
  /\ pc[Main] = "wait"
  /\ que[FinishedQue] = <<>>
  /\ \A w \in Workers : pc[w] = "terminated" \/ Blocked(w)

\* the names of the remote manifest whose hash is absent from, or different
\* from, the local manifest as it was loaded
Dispatchable ==
  {fn \in DOMAIN remote_hashmap :
     fn \notin DOMAIN loaded \/ loaded[fn] # remote_hashmap[fn]}

\* how often x occurs in a sequence
Count(seq, x) == Cardinality({i \in DOMAIN seq : seq[i] = x})

\* the items deque() returned from queue q, in order (None included)
Taken(q) == [i \in DOMAIN dequeued[q] |-> dequeued[q][i][2]]

\* the returns of download_que.deque() that handed out a work item
HandedOut == {i \in DOMAIN dequeued[DownloadQue] : dequeued[DownloadQue][i][2] # None}

\* the number of None the loop of sync() has taken from the finished queue
SentinelsSeen == Count(Taken(FinishedQue), None)

\* the names whose work item the loop of sync() has taken from the finished queue
Consumed ==
  {Basename(Taken(FinishedQue)[i][1]) :
     i \in {j \in DOMAIN Taken(FinishedQue) : Taken(FinishedQue)[j] # None}}

\* C1: with at least as many work items as workers, the coordinator is never
\* blocked for ever in enque(), join() or deque(): it never needs the lock of a
\* queue that a thread still holds after leaving deque(), and it never waits on
\* an empty finished queue that no worker can fill any more.
C1_CoordinatorNeverBlocked ==
  Cardinality(Dispatchable) >= threads => ~Blocked(Main) /\ ~Starved

\* C2: every work item put on the work queue is handed out exactly once, to one
\* worker: no item is returned by two deque() calls, every item put is either
\* still in the queue or was handed to a worker, and none is left in the queue
\* when sync() returns or behind a lock that is never released.
C2_EachItemHandedOnce ==
  /\ \A i, j \in HandedOut :
       dequeued[DownloadQue][i][2] = dequeued[DownloadQue][j][2] => i = j
  /\ \A i \in HandedOut : dequeued[DownloadQue][i][1] \in Workers
  /\ \A k \in DOMAIN enqueued[DownloadQue] :
       LET item == enqueued[DownloadQue][k]
       IN Count(que[DownloadQue], item) + Count(Taken(DownloadQue), item)
            = Count(enqueued[DownloadQue], item)
  /\ pc[Main] = "done" => que[DownloadQue] = <<>>
  /\ owner[DownloadQue] # NoOwner => que[DownloadQue] = <<>>

\* two work items were put and each went to another worker
C2_Witness ==
  /\ pc[Main] = "done"
  /\ Len(enqueued[DownloadQue]) = 2
  /\ \E i, j \in HandedOut :
       /\ dequeued[DownloadQue][i][1] # dequeued[DownloadQue][j][1]
       /\ dequeued[DownloadQue][i][2] # dequeued[DownloadQue][j][2]

\* C3: once the work queue is closed, no worker leaves deque() other than with
\* an item or the sentinel, and none is blocked for ever: every worker that
\* waits is released and gets None once the queue is empty.
C3_CloseReleasesEveryWorker ==
  joined[DownloadQue] => \A w \in Workers : w \notin exc /\ ~Blocked(w)

\* C4: the drain of sync() ends only when it has seen one sentinel of each
\* worker, so not while a worker still downloads or has an item to push.
C4_DrainUntilAllSentinels ==
  pc[Main] = "done" =>
    /\ SentinelsSeen = threads
    /\ \A w \in Workers : pc[w] \notin {"download", "retrbinary", "enque"}

\* C5: the loop of sync() takes the finished items in the order they arrived,
\* each once, and when sync() returns every item whose download() returned True
\* has been taken by it.
C5_FinishedConsumedOnceInOrder ==
  /\ Len(Taken(FinishedQue)) <= Len(enqueued[FinishedQue])
  /\ \A i \in DOMAIN Taken(FinishedQue) : Taken(FinishedQue)[i] = enqueued[FinishedQue][i]
  /\ \A i, j \in DOMAIN Taken(FinishedQue) :
       Taken(FinishedQue)[i] = Taken(FinishedQue)[j] => i = j
  /\ pc[Main] = "done" => verified \subseteq Consumed


\* the names of the work items put on the finished queue
Pushed ==
  {Basename(enqueued[FinishedQue][i][1]) :
     i \in {j \in DOMAIN enqueued[FinishedQue] : enqueued[FinishedQue][j] # None}}

\* manifest() has read both manifests
Loaded == pc[Main] \notin {"connect", "build_download_workers", "manifest_load"}

\* the entries of m that are not as they were loaded at the start of the run
Changed(m) == {fn \in DOMAIN m : fn \notin DOMAIN loaded \/ loaded[fn] # m[fn]}

\* C6: content whose digest is not the expected hash is never renamed to the
\* target, pushed, unpacked or recorded: every rename to a target, every
\* archive behind a pushed item and everything unpacked has the expected
\* digest, and an entry of the manifest (in memory or in the hash file) is
\* changed only for an artifact whose download() returned True, to its remote
\* hash.
C6_OnlyVerifiedContentInstalled ==
  /\ \A r \in renamed : Digest(r[2]) = catalog[r[1]]
  /\ \A fn \in Pushed :
       /\ fn \in verified
       /\ fn \notin removed =>
            archive[fn] # NoFile /\ Digest(archive[fn]) = remote_hashmap[fn]
  /\ \A fn \in Artifacts : blastdb[fn] # NoFile => Digest(blastdb[fn]) = catalog[fn]
  /\ persisted \subseteq verified
  /\ Loaded =>
       /\ \A fn \in Changed(local_hashmap) :
            fn \in verified /\ local_hashmap[fn] = remote_hashmap[fn]
       /\ \A fn \in Changed(load_local_hashmap(hashfile)) :
            fn \in verified /\ load_local_hashmap(hashfile)[fn] = remote_hashmap[fn]

\* one artifact was rejected for its hash, another one was recorded
C6_Witness ==
  /\ pc[Main] = "done"
  /\ mismatched \ verified # {}
  /\ persisted # {}

\* the coordinator is in the loop of sync() over the finished queue (lines 206-214)
InInstallerLoop ==
  pc[Main] \in {"deque", "wait", "notified", "install", "write_open", "write_close",
                "unlink", "done"}

\* the manifest as loaded, with the entries of the artifacts persisted in this run
LoadedPlusPersisted ==
  [fn \in DOMAIN loaded \cup persisted |->
     IF fn \in persisted THEN remote_hashmap[fn] ELSE loaded[fn]]

\* C7: at every point of the loop of sync() the hash file holds exactly the
\* entries loaded at the start of the run plus those of the artifacts whose
\* write_local_hashmap() completed, and an archive the loop removed has its
\* entry in the hash file.
C7_ManifestOnDiskAtEveryPoint ==
  InInstallerLoop =>
    /\ load_local_hashmap(hashfile) = LoadedPlusPersisted
    /\ \A fn \in removed :
         /\ fn \in DOMAIN load_local_hashmap(hashfile)
         /\ load_local_hashmap(hashfile)[fn] = remote_hashmap[fn]

\* C8: manifest() yields exactly the names of the remote manifest whose hash is
\* absent from, or different from, the local manifest, each once: what it has
\* yielded is always among them, without repetition, and when it is exhausted
\* it has yielded all of them.
C8_DiffYieldsExactlyTheStale ==
  /\ \A i \in DOMAIN yielded : yielded[i] \in Dispatchable
  /\ \A i, j \in DOMAIN yielded : yielded[i] = yielded[j] => i = j
  /\ Loaded /\ pc[Main] # "manifest" /\ unvisited = {} =>
       {yielded[i] : i \in DOMAIN yielded} = Dispatchable

\* manifest() is exhausted, it yielded a name whose local hash differs and
\* skipped a name whose local hash is the remote one
C8_Witness ==
  /\ pc[Main] = "join"
  /\ \E fn \in DOMAIN loaded :
       fn \in DOMAIN remote_hashmap /\ loaded[fn] # remote_hashmap[fn]
         /\ yielded = <<fn>>
  /\ \E fn \in DOMAIN loaded :
       fn \in DOMAIN remote_hashmap /\ loaded[fn] = remote_hashmap[fn]

\* C9: a second run of sync() against the same remote directory retrieves
\* nothing over the network.  Stated for the runs that follow a run in which no
\* download() and no install() returned False, which the claim covers.
C9_SecondRunFetchesNothing ==
  run >= 2 /\ ~failed => fetched = {}

\* C10: the failure of one artifact does not stop the work on the others: when
\* sync() returns after a hash mismatch or a failed unpack of one artifact,
\* every other artifact whose download() returned True was handed to install()
\* and, unless its own unpack failed, recorded in the manifest.
C10_SiblingsStillInstalled ==
  pc[Main] = "done" =>
    \A f \in mismatched \cup unpackfailed :
      \A fn \in verified \ {f} : fn \in unpackfailed \/ fn \in persisted


\* the name of the i-th work item the loop of sync() took, 0 for a None
TakenName(i) ==
  IF Taken(FinishedQue)[i] = None THEN 0 ELSE Basename(Taken(FinishedQue)[i][1])

\* C11: when the unpack of a finished item fails, its staged archive stays in
\* place, its entry of the manifest is neither added nor updated, in memory and
\* in the hash file, and the loop goes on with the next finished item.
C11_FailedUnpackLeavesArtifact ==
  \A fn \in unpackfailed :
    /\ archive[fn] # NoFile
    /\ Digest(archive[fn]) = remote_hashmap[fn]
    /\ fn \notin removed
    /\ fn \notin persisted
    /\ fn \notin Changed(local_hashmap)
    /\ fn \in DOMAIN loaded => fn \in DOMAIN local_hashmap
    /\ fn \notin Changed(load_local_hashmap(hashfile))
    /\ pc[Main] \in {"install", "write_open", "write_close", "unlink"} =>
         WorkName(Main) # fn

\* an unpack failed and an item taken after it was installed and recorded
C11_Witness ==
  \E i, j \in DOMAIN Taken(FinishedQue) :
    /\ i < j
    /\ TakenName(i) \in unpackfailed
    /\ TakenName(j) \in persisted


\* the names manifest() has gone past
Visited == IF Loaded THEN DOMAIN remote_hashmap \ unvisited ELSE {}

\* the names manifest() yielded
Yielded == {yielded[i] : i \in DOMAIN yielded}

\* sync() is between the first next() of manifest() and the end of join()
Diffing == pc[Main] \in {"manifest", "enque", "join"}

\* C12: once the diff has gone past an artifact whose local hash is the remote
\* one, no staged archive of it exists; the diff removes the archive of no
\* artifact it yields; and while the diff runs the local manifest, in memory and
\* in the hash file, is the one that was loaded.
C12_DiffCleansOnlyUpToDate ==
  /\ \A fn \in Visited \ Dispatchable : archive[fn] = NoFile
  /\ cleaned \cap Yielded = {}
  /\ cleaned \subseteq Visited \ Dispatchable
  /\ Diffing => /\ local_hashmap = loaded
                /\ load_local_hashmap(hashfile) = loaded

\* the diff removed the staged archive of an up-to-date artifact and went past
\* a yielded artifact whose staged archive is still there
C12_Witness ==
  /\ Diffing
  /\ cleaned # {}
  /\ \E fn \in Yielded : archive[fn] # NoFile /\ fn \notin {r[1] : r \in renamed}


\* worker w is inside download() (lines 74-103); "retrbinary" is the network call
InDownload(w) == pc[w] \in {"download", "retrbinary"}

\* C13: a worker that is inside download(), its network call included, holds
\* the lock of no queue, so a thread that needs a queue lock is never kept from
\* it by that worker, and while no lock is kept by a thread that left deque()
\* every other worker that is not waiting for an item can take its next step.
C13_HungDownloadHoldsNoLock ==
  \A w \in Workers :
    InDownload(w) =>
      /\ \A q \in Queues : owner[q] # w
      /\ \A t \in AllThreads, q \in Queues :
           NeedsLock(t, q) /\ owner[q] \notin {NoOwner, t} => ~InDownload(owner[q])
      /\ \A v \in Workers \ {w} :
           pc[v] \notin {"wait", "terminated"} /\ ~Blocked(v) => ENABLED Step(v)

\* a worker is in its network call, and a work item that another worker took
\* from the work queue after it has been pushed to the finished queue
C13_Witness ==
  \E w, v \in Workers :
    /\ w # v
    /\ pc[w] = "retrbinary"
    /\ \E i, j \in HandedOut :
         /\ i < j
         /\ dequeued[DownloadQue][i] = <<w, work[w]>>
         /\ dequeued[DownloadQue][j][1] = v
         /\ Basename(dequeued[DownloadQue][j][2][1]) \in Pushed


\* the artifacts of the remote directory whose database name matches at least
\* one include pattern and no exclude pattern
Qualified ==
  {a \in DOMAIN catalog :
     /\ \E p \in include : fnmatch(DbName(a), p)
     /\ \A p \in exclude : ~fnmatch(DbName(a), p)}

\* C14: the descriptors fetched while building the remote manifest are exactly
\* those of the artifacts whose base name matches at least one include pattern
\* and no exclude pattern; none is fetched for an artifact that matches no
\* include pattern, whatever the exclude list; and the remote manifest has
\* entries for the qualified artifacts only.
C14_DescriptorFetchedIffQualified ==
  /\ ~Loaded => requested = {}
  /\ Loaded =>
       /\ \A a \in DOMAIN catalog : DescriptorFile(a) \in requested <=> a \in Qualified
       /\ \A fn \in requested : \E a \in DOMAIN catalog : fn = DescriptorFile(a)
       /\ \A a \in DOMAIN catalog :
            (\A p \in include : ~fnmatch(DbName(a), p)) =>
               DescriptorFile(a) \notin requested /\ a \notin DOMAIN remote_hashmap
       /\ DOMAIN remote_hashmap = Qualified
       /\ \A a \in Qualified : remote_hashmap[a] = catalog[a]

\* the remote manifest was built with one artifact fetched and another one
\* that matches an include pattern and an exclude pattern left out
C14_Witness ==
  /\ Loaded
  /\ requested # {}
  /\ \E a \in DOMAIN catalog :
       /\ match(DbName(a), include)
       /\ match(DbName(a), exclude)
       /\ DescriptorFile(a) \notin requested
       /\ a \notin DOMAIN remote_hashmap


\* the names of the work items sync() has put on the work queue
Dispatched ==
  {Basename(enqueued[DownloadQue][i][1]) :
     i \in {j \in DOMAIN enqueued[DownloadQue] : enqueued[DownloadQue][j] # None}}

\* a worker thread has been started
WorkerStarted == \E w \in Workers : pc[w] # "unstarted"

\* the loop of sync() over finished_que has been entered
DrainStarted ==
  pc[Main] \in {"deque", "wait", "notified", "raised", "install", "write_open",
                "write_close", "unlink", "done"}

\* where sync() is: 0 before connect(), 1 connected, 2 diffing and dispatching
\* (the loop over manifest() up to join()), 3 draining, 4 returned
Phase ==
  CASE pc[Main] = "connect" -> 0
    [] pc[Main] = "build_download_workers" -> 1
    [] pc[Main] \in {"manifest_load", "manifest", "enque", "join"} -> 2
    [] pc[Main] = "done" -> 4
    [] OTHER -> 3

\* C15 as stated: the run is connected before a worker is started, the diff is
\* complete before any work item is dispatched, and every item is dispatched
\* and the work queue closed before the drain starts.
C15_DiffCompleteBeforeDispatch ==
  /\ WorkerStarted => Phase >= 2
  /\ Dispatched # {} => Loaded /\ unvisited = {}
  /\ DrainStarted => joined[DownloadQue] /\ Dispatched = Yielded

\* what holds of every state of a run
PhaseFacts ==
  /\ WorkerStarted <=> Phase >= 2
  /\ Loaded <=> Phase >= 2 /\ pc[Main] # "manifest_load"
  /\ Dispatched \subseteq Yielded
  /\ Dispatched \cap unvisited = {}
  /\ Dispatched = IF pc[Main] = "enque"
                  THEN Yielded \ {WorkName(Main)} ELSE Yielded
  /\ joined[DownloadQue] <=> DrainStarted
  /\ DrainStarted => unvisited = {} /\ Dispatched = Yielded
  /\ dequeued[FinishedQue] # <<>> => DrainStarted

\* C15 (amended): one run of sync() goes through connected, diffing and
\* dispatching, draining and returned in that order, one phase at a time and
\* never back; workers are started after connect() and before the diff is
\* loaded; the diff is lazy, so a name is dispatched right after the diff
\* yields it and before the diff looks at the next name; every yielded name is
\* dispatched and the work queue closed before the drain starts.
C15_PhasesInOrder ==
  [][/\ run' = run => Phase' \in {Phase, Phase + 1}
     /\ run' # run => Phase = 4 /\ Phase' = 0
     /\ PhaseFacts']_vars

\* sync() returned after the diff yielded two names, the second one after the
\* first was dispatched
C15_Witness ==
  /\ pc[Main] = "done"
  /\ Len(yielded) = 2
  /\ Dispatched = Yielded


\* what holds of every artifact whose download() found a hash mismatch in this run
MismatchFacts ==
  \A fn \in mismatched :
    /\ tempfile[fn] = NoFile
    /\ fn \notin verified
    /\ fn \notin Pushed
    /\ fn \notin {r[1] : r \in renamed}
    /\ fn \notin removed \cup cleaned
    /\ fn \notin Changed(local_hashmap)
    /\ fn \in DOMAIN loaded => fn \in DOMAIN local_hashmap
    /\ fn \notin Changed(load_local_hashmap(hashfile))
    /\ \/ fn \notin DOMAIN load_local_hashmap(hashfile)
       \/ load_local_hashmap(hashfile)[fn] # catalog[fn]

\* C16: the step in which download() finds a hash mismatch removes the
\* temporary file and changes neither the file at target, nor the finished
\* queue, nor the manifest; afterwards the item is never pushed, its target is
\* never renamed to or removed, and its manifest entry, in memory and in the
\* hash file, stays as loaded and differs from the remote hash, so the diff of
\* the next run yields the artifact again.
C16_MismatchLeavesNoTrace ==
  [][/\ mismatched' \ mismatched # {} =>
          /\ archive' = archive
          /\ \A fn \in mismatched' \ mismatched : tempfile'[fn] = NoFile
          /\ que' = que
          /\ enqueued' = enqueued
          /\ local_hashmap' = local_hashmap
          /\ hashfile' = hashfile
     /\ MismatchFacts']_vars

\* sync() returned after a download failed on a mismatch while a file with
\* another content was at its target, and that file is still there
C16_Witness ==
  /\ pc[Main] = "done"
  /\ \E fn \in mismatched :
       /\ fn \in fetched
       /\ archive[fn] # NoFile
       /\ Digest(archive[fn]) # remote_hashmap[fn]


\* C17: deque() never pops from an empty queue: no thread ever raised the
\* IndexError of que.pop() on an empty list.
C17_NeverPopsEmpty == exc = {}

\* C18: no thread owns the lock of a queue outside a queue operation: every
\* exit of deque(), enque() and join() leaves que_cv released.
C18_LockReleasedOnEveryExit == \A q \in Queues : owner[q] = NoOwner

\* C19: when sync() returns from a run in which no download found a mismatch
\* and no unpack failed, the local manifest, in memory and in the hash file,
\* maps every artifact of the remote manifest to its remote hash, and no staged
\* archive of a dispatched artifact is left.
C19_ReturnsConverged ==
  pc[Main] = "done" /\ mismatched = {} /\ unpackfailed = {} =>
    \A fn \in DOMAIN remote_hashmap :
      /\ fn \in DOMAIN local_hashmap
      /\ local_hashmap[fn] = remote_hashmap[fn]
      /\ fn \in DOMAIN load_local_hashmap(hashfile)
      /\ load_local_hashmap(hashfile)[fn] = remote_hashmap[fn]
      /\ fn \in Dispatched => archive[fn] = NoFile

====
